---- MODULE Spec2Model ----
(***************************************************************************)
(* A model of the eth_abi decoders (src/eth_abi/decoding.py).              *)
(*                                                                         *)
(* A byte string is a sequence of numbers 0..255.  A Python integer is     *)
(* unbounded, so it is kept as a sign and a magnitude, the magnitude being *)
(* its big-endian byte string without leading zero bytes: two byte strings *)
(* denote the same integer exactly when their magnitudes are equal.        *)
(* A stream is a byte string with a cursor (read / seek / tell).           *)
(***************************************************************************)
EXTENDS Integers, Sequences, FiniteSets, TLC

VARIABLES
    decoder,   \* the decoder instance that is called
    stream,    \* the bytes of the stream
    pos,       \* the stream's cursor, stream.tell()
    start,     \* the cursor when the decoder was called
    result,    \* what the call returned or raised
    trace,     \* the HeadTailDecoder calls of the decode, in order
    reach,     \* the index of the last byte of the stream the decode read
    origin,    \* how the stream was made (the input of the run)
    typ,       \* the type string handed to process_type
    processed, \* what process_type returned or raised
    pc         \* "ready" before the call, "done" after it

vars == <<decoder, stream, pos, start, result, trace, reach, origin, typ, processed, pc>>

----------------------------------------------------------------------------
(* Byte strings and unbounded integers *)

Byte == 0..255

Min(a, b) == IF a <= b THEN a ELSE b

Zeros(n) == [i \in 1..n |-> 0]

\* s[lo:hi] for positions inside the string
SliceClipped(s, lo, hi) ==
    IF hi <= lo THEN <<>> ELSE [i \in 1..(hi - lo) |-> s[lo + i]]

\* raw_data[a:b] of Python, 0-based and clipped to the string
Slice(s, a, b) == SliceClipped(s, Min(a, Len(s)), Min(b, Len(s)))

\* s without its leading zero bytes
StripZeros(s) ==
    IF \A i \in 1..Len(s) : s[i] = 0 THEN <<>>
    ELSE SubSeq(s, CHOOSE i \in 1..Len(s) : s[i] # 0 /\ \A j \in 1..(i - 1) : s[j] = 0, Len(s))

\* a Python int: sign and magnitude (zero is never negative)
PyInt(neg, mag) == [neg |-> neg /\ mag # <<>>, mag |-> mag]

\* eth_abi.utils.numeric.big_endian_to_int as decoding.py uses it
big_endian_to_int(data) == PyInt(FALSE, StripZeros(data))

\* a >= b for magnitudes
MagGE(a, b) ==
    IF Len(a) # Len(b) THEN Len(a) > Len(b)
    ELSE \/ a = b
         \/ \E i \in 1..Len(a) :
               /\ a[i] > b[i]
               /\ \A j \in 1..(i - 1) : a[j] = b[j]

\* the magnitude of 2 ** (8 * n)
TwoPow8(n) == <<1>> \o Zeros(n)

LeftPad(s, n) == IF Len(s) >= n THEN s ELSE Zeros(n - Len(s)) \o s

\* a - b for byte strings of one width with a >= b: digit i borrows when the
\* digits to its right are less in a than in b
Borrows(a, b, i) ==
    \E j \in (i + 1)..Len(a) :
        a[j] < b[j] /\ \A k \in (i + 1)..(j - 1) : a[k] = b[k]

SubBytes(a, b) ==
    [i \in 1..Len(a) |-> (a[i] - b[i] - (IF Borrows(a, b, i) THEN 1 ELSE 0) + 256) % 256]

\* a - b for magnitudes, as a Python int
MagSub(a, b) ==
    IF MagGE(a, b)
    THEN PyInt(FALSE, StripZeros(SubBytes(LeftPad(a, Len(a)), LeftPad(b, Len(a)))))
    ELSE PyInt(TRUE, StripZeros(SubBytes(LeftPad(b, Len(b)), LeftPad(a, Len(b)))))

\* the value of a magnitude as a number of the model, for sizes and positions;
\* a magnitude of more than three bytes is past every stream of the model
HugeIndex == 256 * 256 * 256

RECURSIVE MagToNat(_)
MagToNat(m) ==
    IF m = <<>> THEN 0 ELSE 256 * MagToNat(SubSeq(m, 1, Len(m) - 1)) + m[Len(m)]

AsIndex(v) == IF Len(v.mag) > 3 THEN HugeIndex ELSE MagToNat(v.mag)

\* eth_abi.utils.numeric.ceil32
ceil32(x) == IF x % 32 = 0 THEN x ELSE x + 32 - (x % 32)

\* v > sys.maxsize = 2 ** 63 - 1: no size or position of a stream
exceeds_maxsize(v) == MagGE(v.mag, <<128, 0, 0, 0, 0, 0, 0, 0>>)

\* ceil32(v) > sys.maxsize, which is v > 2 ** 63 - 32
ceil32_exceeds_maxsize(v) == MagGE(v.mag, <<127, 255, 255, 255, 255, 255, 255, 225>>)

----------------------------------------------------------------------------
(* The stream: io.BytesIO.  A cursor state is the cursor itself, the       *)
(* HeadTailDecoder calls made so far, and how far into the stream the      *)
(* reads have got (the index of the last byte any read returned).          *)

Cursor(p, tr, r) == [pos |-> p, trace |-> tr, reach |-> r]

\* stream.read(n): the bytes got; fewer than n at the end of the stream
stream_read(s, st, n) == Slice(s, st.pos, st.pos + n)

\* the cursor state after a read that got `got` bytes
stream_advance(st, got) ==
    Cursor(st.pos + got, st.trace,
           IF got > 0 /\ st.pos + got > st.reach THEN st.pos + got ELSE st.reach)

\* the cursor state after stream.read(n)
stream_after_read(s, st, n) == stream_advance(st, Len(stream_read(s, st, n)))

\* stream.seek(p)
stream_seek(st, p) == Cursor(p, st.trace, st.reach)

----------------------------------------------------------------------------
(* Outcomes of a call: the value returned or the exception raised, and the *)
(* cursor state it leaves                                                  *)

Ok(value, st) == [status |-> "ok", value |-> value, st |-> st]

Raise(exc, st) == [status |-> exc, value |-> <<>>, st |-> st]

InsufficientDataBytes == "InsufficientDataBytes"

\* what io.BytesIO raises for a size or a position past sys.maxsize
OverflowError == "OverflowError"

NonEmptyPaddingBytes == "NonEmptyPaddingBytes"

----------------------------------------------------------------------------
(* Decoder instances: what as_decoder builds, a class with its attributes  *)

UIntDecoder(bits) == [cls |-> "UIntDecoder", value_bit_size |-> bits]

IntDecoder(bits) == [cls |-> "IntDecoder", value_bit_size |-> bits]

BytesDecoder(bits) == [cls |-> "BytesDecoder", value_bit_size |-> bits]

decode_bool == [cls |-> "BooleanDecoder", value_bit_size |-> 8]

decode_address == [cls |-> "AddressDecoder", value_bit_size |-> 20 * 8]

decode_uint_256 == UIntDecoder(256)

decode_string == [cls |-> "StringDecoder"]

decode_bytes == decode_string

SizedArrayDecoder(n, sub) ==
    [cls |-> "SizedArrayDecoder", array_size |-> n, sub_decoder |-> sub]

DynamicArrayDecoder(sub) == [cls |-> "DynamicArrayDecoder", sub_decoder |-> sub]

HeadTailDecoder(sub) == [cls |-> "HeadTailDecoder", sub_decoder |-> sub]

MultiDecoder(decoders) == [cls |-> "MultiDecoder", decoders |-> decoders]

\* Fixed32ByteSizeDecoder.data_byte_size
data_byte_size == 32

is_big_endian(d) == d.cls # "BytesDecoder"

----------------------------------------------------------------------------
(* FixedByteSizeDecoder *)

_get_value_byte_size(d) == d.value_bit_size \div 8

\* a check that takes a short read as the word it would be with zeros after it
read_data_check_lenient(data, st) == Ok(data \o Zeros(data_byte_size - Len(data)), st)

\* if len(data) != cls.data_byte_size: raise InsufficientDataBytes
read_data_check(data, st) ==
    IF Len(data) # data_byte_size THEN Raise(InsufficientDataBytes, st) ELSE Ok(data, st)

FixedByteSizeDecoder_read_data_from_stream(d, s, st) ==
    read_data_check(stream_read(s, st, data_byte_size),
                    stream_after_read(s, st, data_byte_size))

\* raw_data[:padding_size] (big endian) or raw_data[value_byte_size:]
padding_bytes_of(d, raw_data) ==
    IF is_big_endian(d)
    THEN Slice(raw_data, 0, data_byte_size - _get_value_byte_size(d))
    ELSE Slice(raw_data, _get_value_byte_size(d), Len(raw_data))

\* raw_data[padding_size:] (big endian) or raw_data[:value_byte_size]
data_of(d, raw_data) ==
    IF is_big_endian(d)
    THEN Slice(raw_data, data_byte_size - _get_value_byte_size(d), Len(raw_data))
    ELSE Slice(raw_data, 0, _get_value_byte_size(d))

\* a normalize_raw_data that splits the word and never looks at the padding
normalize_raw_data_unchecked(d, raw_data) == [status |-> "ok", value |-> data_of(d, raw_data)]

\* if padding_bytes != b'\x00' * padding_size: raise NonEmptyPaddingBytes
padding_check(padding_bytes, padding_size, data) ==
    IF padding_bytes # Zeros(padding_size)
    THEN [status |-> NonEmptyPaddingBytes, value |-> <<>>]
    ELSE [status |-> "ok", value |-> data]

normalize_raw_data(d, raw_data) ==
    padding_check(padding_bytes_of(d, raw_data),
                  data_byte_size - _get_value_byte_size(d),
                  data_of(d, raw_data))

\* a decoder_fn that takes every byte other than 0 for True
BooleanDecoder_decoder_fn_truthy(data) == [status |-> "ok", value |-> data # <<0>>]

BooleanDecoder_decoder_fn(data) ==
    IF data = <<0>> THEN [status |-> "ok", value |-> FALSE]
    ELSE IF data = <<1>> THEN [status |-> "ok", value |-> TRUE]
    ELSE [status |-> NonEmptyPaddingBytes, value |-> <<>>]

\* eth_utils.to_normalized_address: "0x" and the lower-case hex digits
HexDigits == <<"0", "1", "2", "3", "4", "5", "6", "7",
               "8", "9", "a", "b", "c", "d", "e", "f">>

to_normalized_address(data) ==
    <<"0x">> \o [i \in 1..(2 * Len(data)) |->
                    LET b == data[(i + 1) \div 2]
                    IN  HexDigits[(IF i % 2 = 1 THEN b \div 16 ELSE b % 16) + 1]]

\* value - 2 ** value_bit_size when value >= 2 ** (value_bit_size - 1), which
\* is the byte 128 followed by zero bytes
IntDecoder_signed(value, n) ==
    IF MagGE(value.mag, <<128>> \o Zeros(n - 1))
    THEN MagSub(value.mag, TwoPow8(n))
    ELSE value

IntDecoder_decoder_fn(d, data) ==
    IntDecoder_signed(big_endian_to_int(data), _get_value_byte_size(d))

decoder_fn(d, data) ==
    CASE d.cls = "BooleanDecoder" -> BooleanDecoder_decoder_fn(data)
      [] d.cls = "AddressDecoder" -> [status |-> "ok", value |-> to_normalized_address(data)]
      [] d.cls = "UIntDecoder"    -> [status |-> "ok", value |-> big_endian_to_int(data)]
      [] d.cls = "IntDecoder"     -> [status |-> "ok", value |-> IntDecoder_decoder_fn(d, data)]
      [] d.cls = "BytesDecoder"   -> [status |-> "ok", value |-> data]
      [] d.cls = "StringDecoder"  -> [status |-> "ok", value |-> data]

----------------------------------------------------------------------------
(* SingleDecoder, StringDecoder and the composite decoders *)

RECURSIVE decode(_, _, _)

\* SingleDecoder.decode for the 32-byte decoders: read, normalize, decoder_fn
Fixed32_return(value, st) ==
    IF value.status # "ok" THEN Raise(value.status, st) ELSE Ok(value.value, st)

Fixed32_normalized(d, data, st) ==
    IF data.status # "ok" THEN Raise(data.status, st)
    ELSE Fixed32_return(decoder_fn(d, data.value), st)

Fixed32_read(d, raw) ==
    IF raw.status # "ok" THEN raw
    ELSE Fixed32_normalized(d, normalize_raw_data(d, raw.value), raw.st)

Fixed32_decode(d, s, st) ==
    Fixed32_read(d, FixedByteSizeDecoder_read_data_from_stream(d, s, st))

\* if len(data) < padded_length: raise InsufficientDataBytes; data[:data_length]
string_data_check(data, data_length, padded_length, st) ==
    IF Len(data) < padded_length
    THEN Raise(InsufficientDataBytes, st)
    ELSE Ok(Slice(data, 0, data_length), st)

string_data_read(s, st, data_length, padded_length) ==
    string_data_check(stream_read(s, st, padded_length), data_length, padded_length,
                      stream_after_read(s, st, padded_length))

\* data_length = decode_uint_256(stream); padded_length = ceil32(data_length);
\* stream.read(padded_length) raises OverflowError past sys.maxsize
string_length_read(s, len) ==
    IF len.status # "ok" THEN len
    ELSE IF ceil32_exceeds_maxsize(len.value) THEN Raise(OverflowError, len.st)
    ELSE string_data_read(s, len.st, AsIndex(len.value), ceil32(AsIndex(len.value)))

StringDecoder_read_data_from_stream(s, st) ==
    string_length_read(s, Fixed32_decode(decode_uint_256, s, st))

\* SingleDecoder.decode for StringDecoder: normalize_raw_data is the identity
StringDecoder_read(d, raw) ==
    IF raw.status # "ok" THEN raw ELSE Ok(decoder_fn(d, raw.value).value, raw.st)

StringDecoder_decode(d, s, st) ==
    StringDecoder_read(d, StringDecoder_read_data_from_stream(s, st))

\* for _ in range(n): yield sub_decoder(stream), gathered by to_tuple.
\* An element that decodes without moving the cursor (an array of size 0)
\* decodes the same way every remaining time round the loop; with a count
\* past HugeIndex the tuple is never completed, which Python ends with a
\* MemoryError.
RECURSIVE array_loop(_, _, _, _, _)
RECURSIVE array_element(_, _, _, _, _, _)

\* a loop that stops at an element that fails and returns those before it
array_element_partial(sub, n, s, st, acc, r) ==
    IF r.status # "ok"
    THEN IF acc = <<>> THEN Raise(r.status, r.st) ELSE Ok(acc, r.st)
    ELSE IF r.st.pos = st.pos
    THEN IF n >= HugeIndex THEN Raise("MemoryError", r.st)
         ELSE Ok(acc \o [i \in 1..n |-> r.value], r.st)
    ELSE array_loop(sub, n - 1, s, r.st, Append(acc, r.value))

array_element(sub, n, s, st, acc, r) ==
    IF r.status # "ok" THEN Raise(r.status, r.st)
    ELSE IF r.st.pos = st.pos
    THEN IF n >= HugeIndex THEN Raise("MemoryError", r.st)
         ELSE Ok(acc \o [i \in 1..n |-> r.value], r.st)
    ELSE array_loop(sub, n - 1, s, r.st, Append(acc, r.value))

array_loop(sub, n, s, st, acc) ==
    IF n <= 0 THEN Ok(acc, st) ELSE array_element(sub, n, s, st, acc, decode(sub, s, st))

SizedArrayDecoder_decode(d, s, st) == array_loop(d.sub_decoder, d.array_size, s, st, <<>>)

RECURSIVE array_size_read(_, _, _)
array_size_read(d, s, array_size) ==
    IF array_size.status # "ok" THEN array_size
    ELSE array_loop(d.sub_decoder, AsIndex(array_size.value), s, array_size.st, <<>>)

DynamicArrayDecoder_decode(d, s, st) ==
    array_size_read(d, s, Fixed32_decode(decode_uint_256, s, st))

\* one entry of the trace: the offset read, where the stream was sought to,
\* and the anchor the cursor is put back to
HeadTailCall(start_pos, at, anchor_pos) ==
    [start_pos |-> start_pos, at |-> at, anchor_pos |-> anchor_pos]

\* stream.seek(anchor_pos); return value
HeadTail_return(value, anchor_pos) ==
    IF value.status # "ok" THEN value ELSE Ok(value.value, stream_seek(value.st, anchor_pos))

\* anchor_pos = stream.tell(); stream.seek(start_pos); value = cls.sub_decoder(stream)
RECURSIVE HeadTail_seek(_, _, _)
HeadTail_seek(d, s, start_pos) ==
    IF start_pos.status # "ok" THEN start_pos
    ELSE IF exceeds_maxsize(start_pos.value) THEN Raise(OverflowError, start_pos.st)
    ELSE HeadTail_return(
             decode(d.sub_decoder, s,
                    Cursor(AsIndex(start_pos.value),
                           Append(start_pos.st.trace,
                                  HeadTailCall(start_pos.value, AsIndex(start_pos.value),
                                               start_pos.st.pos)),
                           start_pos.st.reach)),
             start_pos.st.pos)

HeadTailDecoder_decode(d, s, st) ==
    HeadTail_seek(d, s, Fixed32_decode(decode_uint_256, s, st))

\* isinstance(decoder, (DynamicArrayDecoder, StringDecoder))
MultiDecoder_wraps(member) == member.cls \in {"DynamicArrayDecoder", "StringDecoder"}

RECURSIVE MultiDecoder_loop(_, _, _, _)
RECURSIVE MultiDecoder_member(_, _, _, _)
MultiDecoder_member(decoders, s, acc, r) ==
    IF r.status # "ok" THEN Raise(r.status, r.st)
    ELSE MultiDecoder_loop(Tail(decoders), s, r.st, Append(acc, r.value))

MultiDecoder_loop(decoders, s, st, acc) ==
    IF decoders = <<>> THEN Ok(acc, st)
    ELSE MultiDecoder_member(decoders, s, acc,
             IF MultiDecoder_wraps(Head(decoders))
             THEN decode(HeadTailDecoder(Head(decoders)), s, st)
             ELSE decode(Head(decoders), s, st))

MultiDecoder_decode(d, s, st) == MultiDecoder_loop(d.decoders, s, st, <<>>)

\* BaseDecoder.__call__
decode(d, s, st) ==
    CASE d.cls = "StringDecoder"       -> StringDecoder_decode(d, s, st)
      [] d.cls = "SizedArrayDecoder"   -> SizedArrayDecoder_decode(d, s, st)
      [] d.cls = "DynamicArrayDecoder" -> DynamicArrayDecoder_decode(d, s, st)
      [] d.cls = "HeadTailDecoder"     -> HeadTailDecoder_decode(d, s, st)
      [] d.cls = "MultiDecoder"        -> MultiDecoder_decode(d, s, st)
      [] OTHER                         -> Fixed32_decode(d, s, st)

----------------------------------------------------------------------------
(* Processed types (base, sub, arrlist) and get_decoder.  Text is a        *)
(* sequence of characters; arrlist holds <<>> for [] and <<k>> for [k].    *)

ProcessedType(base, sub, arrlist) == [base |-> base, sub |-> sub, arrlist |-> arrlist]

DigitValue(c) ==
    CASE c = "0" -> 0 [] c = "1" -> 1 [] c = "2" -> 2 [] c = "3" -> 3 [] c = "4" -> 4
      [] c = "5" -> 5 [] c = "6" -> 6 [] c = "7" -> 7 [] c = "8" -> 8 [] c = "9" -> 9

\* int(sub) of Python for a string of decimal digits
RECURSIVE int(_)
int(sub) ==
    IF sub = <<>> THEN 0
    ELSE 10 * int(SubSeq(sub, 1, Len(sub) - 1)) + DigitValue(sub[Len(sub)])

ValueError == [cls |-> "ValueError"]

RECURSIVE get_decoder_for_type(_, _, _)
array_decoder(last, sub_decoder) ==
    IF last # <<>>
    THEN SizedArrayDecoder(last[1], sub_decoder)
    ELSE DynamicArrayDecoder(sub_decoder)

get_decoder_for_type(base, sub, arrlist) ==
    IF arrlist # <<>>
    THEN array_decoder(arrlist[Len(arrlist)],
                       get_decoder_for_type(base, sub, SubSeq(arrlist, 1, Len(arrlist) - 1)))
    ELSE CASE base = "address" -> decode_address
           [] base = "bool"    -> decode_bool
           [] base = "bytes"   -> IF sub # <<>> THEN BytesDecoder(int(sub) * 8) ELSE decode_bytes
           [] base = "int"     -> IntDecoder(int(sub))
           [] base = "string"  -> decode_string
           [] base = "uint"    -> UIntDecoder(int(sub))
           [] OTHER            -> ValueError

get_decoder(processed_types) ==
    MultiDecoder([i \in 1..Len(processed_types) |->
                     get_decoder_for_type(processed_types[i].base,
                                          processed_types[i].sub,
                                          processed_types[i].arrlist)])

----------------------------------------------------------------------------
(* The encoder, after the specification's sections 4.3 and 4.4 (the        *)
(* repository's encoding module is not among the sources).                 *)

ElementType(t) == ProcessedType(t.base, t.sub, SubSeq(t.arrlist, 1, Len(t.arrlist) - 1))

\* is_dynamic of the specification's section 3
RECURSIVE is_dynamic(_)
is_dynamic(t) ==
    IF t.arrlist # <<>>
    THEN t.arrlist[Len(t.arrlist)] = <<>> \/ is_dynamic(ElementType(t))
    ELSE t.base = "string" \/ (t.base = "bytes" /\ t.sub = <<>>)

RECURSIVE NatToMag(_)
NatToMag(n) == IF n = 0 THEN <<>> ELSE NatToMag(n \div 256) \o <<n % 256>>

\* a length or an offset as a uint256 word
IntWord(n) == LeftPad(NatToMag(n), data_byte_size)

encode_uint(v) == LeftPad(v.mag, data_byte_size)

\* two's complement on 32 bytes: 2 ** 256 - magnitude for a negative value
encode_int(v) ==
    IF ~v.neg THEN LeftPad(v.mag, data_byte_size)
    ELSE Tail(SubBytes(TwoPow8(data_byte_size), LeftPad(v.mag, data_byte_size + 1)))

encode_bool(v) == Zeros(data_byte_size - 1) \o <<IF v THEN 1 ELSE 0>>

HexValue(c) == CHOOSE n \in 0..15 : HexDigits[n + 1] = c

\* the 20 bytes of an address given as normalized hex text
address_bytes(text) ==
    [i \in 1..((Len(text) - 1) \div 2) |->
        16 * HexValue(text[2 * i]) + HexValue(text[2 * i + 1])]

encode_address(v) == LeftPad(address_bytes(v), data_byte_size)

encode_fixed_bytes(v) == v \o Zeros(data_byte_size - Len(v))

encode_dynamic_bytes(v) == IntWord(Len(v)) \o v \o Zeros(ceil32(Len(v)) - Len(v))

RECURSIVE Concat(_)
Concat(parts) == IF parts = <<>> THEN <<>> ELSE Head(parts) \o Concat(Tail(parts))

RECURSIVE SumLen(_)
SumLen(parts) == IF parts = <<>> THEN 0 ELSE Len(Head(parts)) + SumLen(Tail(parts))

RECURSIVE encode(_, _)

\* head || tail of the members: a static member's encoding in the head, a
\* dynamic member's offset in the head and its body in the tail
encode_tuple(types, values) ==
    LET n          == Len(types)
        bodies     == [i \in 1..n |-> encode(types[i], values[i])]
        slots      == [i \in 1..n |->
                          IF is_dynamic(types[i]) THEN Zeros(data_byte_size) ELSE bodies[i]]
        tails      == [i \in 1..n |-> IF is_dynamic(types[i]) THEN bodies[i] ELSE <<>>]
        head_width == SumLen(slots)
        heads      == [i \in 1..n |->
                          IF is_dynamic(types[i])
                          THEN IntWord(head_width + SumLen(SubSeq(tails, 1, i - 1)))
                          ELSE bodies[i]]
    IN  Concat(heads) \o Concat(tails)

encode(t, v) ==
    IF t.arrlist # <<>>
    THEN LET inner == [i \in 1..Len(v) |-> ElementType(t)]
         IN  IF t.arrlist[Len(t.arrlist)] = <<>>
             THEN IntWord(Len(v)) \o encode_tuple(inner, v)
             ELSE encode_tuple(inner, v)
    ELSE CASE t.base = "uint"    -> encode_uint(v)
           [] t.base = "int"     -> encode_int(v)
           [] t.base = "bool"    -> encode_bool(v)
           [] t.base = "address" -> encode_address(v)
           [] t.base = "bytes"   -> IF t.sub # <<>> THEN encode_fixed_bytes(v)
                                    ELSE encode_dynamic_bytes(v)
           [] t.base = "string"  -> encode_dynamic_bytes(v)

----------------------------------------------------------------------------
(* The inputs of the model: types, values and streams *)

MaxArraySize == 2

MaxSeed == 3

IntSubs == {<<"8">>, <<"1", "6">>, <<"2", "5", "6">>}

BytesSubs == {<<"1">>, <<"2", "0">>, <<"3", "2">>}

PrimTypes ==
    {ProcessedType(b, s, <<>>) : b \in {"uint", "int"}, s \in IntSubs}
        \cup {ProcessedType("bytes", s, <<>>) : s \in BytesSubs \cup {<<>>}}
        \cup {ProcessedType(b, <<>>, <<>>) : b \in {"bool", "address", "string"}}

Dims == {<<>>} \cup {<<k>> : k \in 0..MaxArraySize}

ArrLists == {<<>>} \cup {<<d>> : d \in Dims} \cup {<<d, e>> : d \in Dims, e \in Dims}

TypeSet == {ProcessedType(p.base, p.sub, a) : p \in PrimTypes, a \in ArrLists}

Uint256 == ProcessedType("uint", <<"2", "5", "6">>, <<>>)

PairTypes ==
    {ProcessedType("bytes", <<>>, <<>>), ProcessedType("string", <<>>, <<>>),
     ProcessedType("int", <<"8">>, <<>>), ProcessedType("bytes", <<"3", "2">>, <<>>),
     ProcessedType("uint", <<"8">>, <<<<>>>>), ProcessedType("bytes", <<>>, <<<<2>>>>)}

TupleSet ==
    {<<t>> : t \in TypeSet}
        \cup {<<Uint256, t>> : t \in PairTypes} \cup {<<t, Uint256>> : t \in PairTypes}

\* the k-th sample value of a type: integers at the ends of their range,
\* byte strings of lengths 1, 0, 33 and 32
Pick(seed) == ((seed - 1) % 4) + 1

RECURSIVE ValueOf(_, _)
ValueOf(t, seed) ==
    IF t.arrlist # <<>>
    THEN LET last == t.arrlist[Len(t.arrlist)]
             n    == IF last = <<>> THEN seed % (MaxArraySize + 1) ELSE last[1]
         IN  [i \in 1..n |-> ValueOf(ElementType(t), seed + i - 1)]
    ELSE LET k == Pick(seed)
             w == int(t.sub) \div 8
         IN  CASE t.base = "uint" ->
                    IF k = 1 THEN PyInt(FALSE, [i \in 1..w |-> 255])
                    ELSE IF k = 2 THEN PyInt(FALSE, <<1>>)
                    ELSE PyInt(FALSE, <<>>)
               [] t.base = "int" ->
                    IF k = 1 THEN PyInt(TRUE, <<1>>)
                    ELSE IF k = 2 THEN PyInt(FALSE, <<127>> \o [i \in 1..(w - 1) |-> 255])
                    ELSE IF k = 3 THEN PyInt(TRUE, <<128>> \o Zeros(w - 1))
                    ELSE PyInt(FALSE, <<>>)
               [] t.base = "bool" -> k % 2 = 1
               [] t.base = "address" ->
                    to_normalized_address([i \in 1..20 |-> (37 * seed + 11 * i) % 256])
               [] t.base = "bytes" /\ t.sub # <<>> ->
                    [i \in 1..int(t.sub) |-> ((16 * seed + i) % 255) + 1]
               [] OTHER ->
                    [i \in 1..(CASE k = 1 -> 1 [] k = 2 -> 0 [] k = 3 -> 33 [] OTHER -> 32) |->
                        ((seed + i) % 255) + 1]

ValuesOf(types, seed) == [i \in 1..Len(types) |-> ValueOf(types[i], seed + i - 1)]

----------------------------------------------------------------------------
(* The streams a run starts from.  An origin records how the stream was    *)
(* made: "abi" is the encoding of a tuple of sample values, decoded at the *)
(* cursor `base` after `base` bytes of other data, with `cut` bytes taken  *)
(* off its end or one bit of it flipped; "single" is the encoding of one   *)
(* value handed to the decoder of its type; "raw" is one word, whole or    *)
(* short, handed to a 32-byte decoder; "rawstring" is a length word and a  *)
(* payload handed to the string decoder; "test" is the data of             *)
(* test_multi_decoder.                                                     *)

CutSet == {1, 31, 32, 33, 64}

BaseSet == {1, 32}

MaskSet == {1, 128}

\* the positions (from 0) of the padding bytes in the encoding of the tuple (t,)
PaddingOf(t, v) ==
    IF t.arrlist # <<>> THEN {}
    ELSE CASE t.base \in {"uint", "int"} -> 0..(data_byte_size - 1 - int(t.sub) \div 8)
           [] t.base = "bool"            -> 0..(data_byte_size - 2)
           [] t.base = "address"         -> 0..(data_byte_size - 21)
           [] t.base = "bytes" /\ t.sub # <<>> -> int(t.sub)..(data_byte_size - 1)
           [] OTHER -> (2 * data_byte_size + Len(v))..(2 * data_byte_size + ceil32(Len(v)) - 1)

NoFlip == [at |-> 0 - 1, mask |-> 0]

AbiOrigin(ts, k, b, c, f) ==
    [family |-> "abi", types |-> ts, seed |-> k, base |-> b, cut |-> c, flip |-> f]

AbiInputs ==
    {AbiOrigin(ts, k, 0, c, NoFlip) : ts \in TupleSet, k \in 1..MaxSeed, c \in {0} \cup CutSet}
        \cup {AbiOrigin(ts, k, b, 0, NoFlip) : ts \in TupleSet, k \in 1..MaxSeed, b \in BaseSet}
        \cup UNION {UNION {{AbiOrigin(<<t>>, k, 0, 0, [at |-> i, mask |-> m]) :
                               i \in PaddingOf(t, ValueOf(t, k)), m \in MaskSet} :
                           k \in 1..MaxSeed} : t \in PrimTypes}

SingleInputs == {[family |-> "single", type |-> t, seed |-> k] : t \in TypeSet, k \in 1..MaxSeed}

RawBits == {8, 16, 248, 256}

RawDecoders ==
    {UIntDecoder(b) : b \in RawBits} \cup {IntDecoder(b) : b \in RawBits}
        \cup {BytesDecoder(b) : b \in {8, 160, 256}} \cup {decode_bool, decode_address}

RawWord(i, a, low, fill) ==
    [k \in 1..data_byte_size |->
        IF k = i THEN a ELSE IF k = data_byte_size THEN low ELSE fill]

RawWords ==
    {RawWord(i, a, low, fill) :
        i \in {1, 2, 12, 13, 30, 31}, a \in {0, 1, 255},
        low \in {0, 1, 2, 127, 128, 255}, fill \in {0, 255}}

ShortWords == {RawWord(1, 0, 1, 0), RawWord(1, 255, 255, 255)}

RawInputs ==
    {[family |-> "raw", decoder |-> d, word |-> w, keep |-> data_byte_size] :
        d \in RawDecoders, w \in RawWords}
        \cup {[family |-> "raw", decoder |-> d, word |-> w, keep |-> n] :
                 d \in RawDecoders, w \in ShortWords, n \in {0, 1, 31, 33}}

RawLengths ==
    {NatToMag(n) : n \in {0, 1, 31, 32, 33, 64, 65}}
        \cup {<<1, 0, 0, 0, 0>>, [i \in 1..data_byte_size |-> 255],
              <<127, 255, 255, 255, 255, 255, 255, 224>>, <<128, 0, 0, 0, 0, 0, 0, 0>>}

RawStringInputs ==
    {[family |-> "rawstring", length |-> l, header |-> h, payload |-> n] :
        l \in RawLengths, h \in {0, 31, 32}, n \in {0, 1, 31, 32, 33, 63, 64, 65, 96, 97}}

\* test_decode_array_of_unsigned_integers: a length word and element words,
\* with more or fewer elements than the length says and bytes after them
RawArrayDecoders ==
    {DynamicArrayDecoder(UIntDecoder(256)), DynamicArrayDecoder(UIntDecoder(8)),
     DynamicArrayDecoder(SizedArrayDecoder(2, UIntDecoder(256)))}

RawArraySizes ==
    {NatToMag(n) : n \in 0..(MaxArraySize + 1)}
        \cup {<<1, 0, 0, 0, 0>>, [i \in 1..data_byte_size |-> 255]}

RawArrayInputs ==
    {[family |-> "rawarray", decoder |-> d, array_size |-> n, words |-> m, extra |-> e] :
        d \in RawArrayDecoders, n \in RawArraySizes,
        m \in 0..(MaxArraySize + 2), e \in {0, 1, 31}}

\* tests/decoding/test_single_decoders.py, test_multi_decoder
TestAddress ==
    <<171, 247, 216, 181, 193, 50, 43, 62, 85, 61,
      47, 172, 144, 255, 0, 108, 48, 241, 184, 117>>

TestTypes(n) ==
    IF n = 1 THEN <<ProcessedType("address", <<>>, <<>>), Uint256>>
    ELSE <<Uint256, ProcessedType("bytes", <<>>, <<>>)>>

TestData(n) ==
    IF n = 1
    THEN LeftPad(TestAddress, data_byte_size) \o LeftPad(<<93, 33, 219, 160, 0>>, data_byte_size)
    ELSE IntWord(0) \o IntWord(64) \o IntWord(0) \o IntWord(0)

TestExpected(n) ==
    IF n = 1
    THEN <<to_normalized_address(TestAddress), PyInt(FALSE, <<93, 33, 219, 160, 0>>)>>
    ELSE <<PyInt(FALSE, <<>>), <<>>>>

TestInputs == {[family |-> "test", case |-> n, cut |-> c] : n \in {1, 2}, c \in {0} \cup CutSet}

FlipBit(b, mask) == IF (b \div mask) % 2 = 0 THEN b + mask ELSE b - mask

\* the valid encoding an origin starts from, before anything is cut or flipped
FullEncoding(o) ==
    CASE o.family = "abi"    -> encode_tuple(o.types, ValuesOf(o.types, o.seed))
      [] o.family = "single" -> encode(o.type, ValueOf(o.type, o.seed))
      [] o.family = "test"   -> TestData(o.case)
      [] OTHER               -> <<>>

InputStream(o) ==
    CASE o.family = "abi" ->
            LET enc  == FullEncoding(o)
                kept == Slice(enc, 0, Len(enc) - o.cut)
            IN  Zeros(o.base) \o
                    [i \in 1..Len(kept) |->
                        IF i = o.flip.at + 1 THEN FlipBit(kept[i], o.flip.mask) ELSE kept[i]]
      [] o.family = "single" -> FullEncoding(o)
      [] o.family = "raw" ->
            IF o.keep <= data_byte_size THEN Slice(o.word, 0, o.keep) ELSE o.word \o <<7>>
      [] o.family = "rawstring" ->
            Slice(LeftPad(o.length, data_byte_size), 0, o.header)
                \o [i \in 1..o.payload |-> (i % 255) + 1]
      [] o.family = "test" ->
            LET enc == FullEncoding(o) IN Slice(enc, 0, Len(enc) - o.cut)
      [] o.family = "rawarray" ->
            LeftPad(o.array_size, data_byte_size)
                \o Concat([k \in 1..o.words |-> IntWord(7 * k)])
                \o [i \in 1..o.extra |-> 9]

InputDecoder(o) ==
    CASE o.family = "abi"       -> get_decoder(o.types)
      [] o.family = "single"    -> get_decoder_for_type(o.type.base, o.type.sub, o.type.arrlist)
      [] o.family = "raw"       -> o.decoder
      [] o.family = "rawstring" -> decode_string
      [] o.family = "rawarray"  -> o.decoder
      [] o.family = "test"      -> get_decoder(TestTypes(o.case))

InputStart(o) == IF o.family = "abi" THEN o.base ELSE 0

----------------------------------------------------------------------------
(* eth_abi/utils/parsing.py.  A type string is a sequence of characters;   *)
(* process_type returns (base, sub, arrlist) with base and sub as text and *)
(* arrlist a list of [] and [k], or raises.                                *)

Lower ==
    {"a", "b", "c", "d", "e", "f", "g", "h", "i", "j", "k", "l", "m",
     "n", "o", "p", "q", "r", "s", "t", "u", "v", "w", "x", "y", "z"}

Digits == {"0", "1", "2", "3", "4", "5", "6", "7", "8", "9"}

\* s[a:] of Python, 0-based
From(s, a) == SubSeq(s, a + 1, Len(s))

\* the length of the longest run of characters of `set` at the start of s:
\* what a greedy [set]* takes
Span(s, set) ==
    CHOOSE n \in 0..Len(s) :
        /\ \A i \in 1..n : s[i] \in set
        /\ n < Len(s) => s[n + 1] \notin set

\* the length of a match of \[[0-9]*\] at the start of s, 0 when there is none
Group(s) ==
    IF s # <<>> /\ s[1] = "["
           /\ Span(Tail(s), Digits) + 2 <= Len(s)
           /\ s[Span(Tail(s), Digits) + 2] = "]"
    THEN Span(Tail(s), Digits) + 2
    ELSE 0

\* the length of the match of (\[[0-9]*\])* at the start of s
RECURSIVE Groups(_)
Groups(s) == IF Group(s) = 0 THEN 0 ELSE Group(s) + Groups(From(s, Group(s)))

\* the length of the match of [0-9]*x?[0-9]* at the start of s
SizeSpan(s) ==
    IF Span(s, Digits) < Len(s) /\ s[Span(s, Digits) + 1] = "x"
    THEN Span(s, Digits) + 1 + Span(From(s, Span(s, Digits) + 1), Digits)
    ELSE Span(s, Digits)

\* TYPE_COMPONENTS_RE.match(typ).groups(): every part may be empty, so the
\* pattern matches a prefix of every string and what follows it is dropped
TYPE_COMPONENTS_RE_sub(rest) == SubSeq(rest, 1, SizeSpan(rest))

TYPE_COMPONENTS_RE_arr(rest) == SubSeq(rest, 1, Groups(rest))

TYPE_COMPONENTS_RE_match(s) ==
    [base |-> SubSeq(s, 1, Span(s, Lower)),
     sub  |-> TYPE_COMPONENTS_RE_sub(From(s, Span(s, Lower))),
     arr  |-> TYPE_COMPONENTS_RE_arr(
                  From(s, Span(s, Lower) + SizeSpan(From(s, Span(s, Lower)))))]

\* ARR_COMPONENT_RE.findall(arr): the matches from left to right
RECURSIVE ARR_COMPONENT_RE_findall(_)
ARR_COMPONENT_RE_findall(arr) ==
    IF arr = <<>> THEN <<>>
    ELSE IF Group(arr) = 0 THEN ARR_COMPONENT_RE_findall(Tail(arr))
    ELSE <<SubSeq(arr, 1, Group(arr))>> \o ARR_COMPONENT_RE_findall(From(arr, Group(arr)))

\* len(''.join(arrlist))
RECURSIVE JoinLen(_)
JoinLen(arrlist) == IF arrlist = <<>> THEN 0 ELSE Len(Head(arrlist)) + JoinLen(Tail(arrlist))

AllDigits(s) == \A i \in 1..Len(s) : s[i] \in Digits

\* OPTIONAL_SIZE_RE = ^[0-9]*$
OPTIONAL_SIZE_RE_match(sub) == AllDigits(sub)

\* SIZE_RE = ^[0-9]+$
SIZE_RE_match(sub) == sub # <<>> /\ AllDigits(sub)

\* TWO_SIZE_RE = ^[0-9]+x[0-9]+$
TWO_SIZE_RE_match(sub) ==
    /\ Span(sub, Digits) > 0
    /\ Span(sub, Digits) < Len(sub)
    /\ sub[Span(sub, Digits) + 1] = "x"
    /\ SIZE_RE_match(From(sub, Span(sub, Digits) + 1))

\* sub.split('x') of a sub that TWO_SIZE_RE matches
SplitHigh(sub) == int(SubSeq(sub, 1, Span(sub, Digits)))

SplitLow(sub) == int(From(sub, Span(sub, Digits) + 1))

Returned(value) == [status |-> "ok", value |-> value]

Raised(exc) == [status |-> exc, value |-> <<>>]

\* the validity checks of process_strict_type, by base: the text of the
\* exception class raised, "ok" when none is
check_type(base, sub) ==
    CASE base \in {<<"s", "t", "r", "i", "n", "g">>, <<"b", "y", "t", "e", "s">>} ->
            IF ~OPTIONAL_SIZE_RE_match(sub) THEN "ValueError"
            ELSE IF sub # <<>> /\ int(sub) > 32 THEN "ValueError"
            ELSE "ok"
      [] base \in {<<"u", "i", "n", "t">>, <<"i", "n", "t">>} ->
            IF ~SIZE_RE_match(sub) THEN "ValueError"
            ELSE IF 8 > int(sub) \/ int(sub) > 256 THEN "ValueError"
            ELSE IF int(sub) % 8 # 0 THEN "ValueError"
            ELSE "ok"
      [] base \in {<<"u", "f", "i", "x", "e", "d">>, <<"f", "i", "x", "e", "d">>} ->
            IF ~TWO_SIZE_RE_match(sub) THEN "ValueError"
            ELSE IF SplitHigh(sub) % 8 # 0 THEN "ValueError"
            ELSE IF SplitHigh(sub) < 8 \/ SplitHigh(sub) > 256 THEN "ValueError"
            ELSE IF SplitLow(sub) < 1 \/ SplitLow(sub) > 80 THEN "ValueError"
            ELSE "ok"
      [] base \in {<<"u", "r", "e", "a", "l">>, <<"r", "e", "a", "l">>} ->
            IF ~TWO_SIZE_RE_match(sub) THEN "ValueError"
            ELSE IF 8 > SplitHigh(sub) + SplitLow(sub) \/ SplitHigh(sub) + SplitLow(sub) > 256
            THEN "ValueError"
            ELSE IF SplitHigh(sub) % 8 # 0 \/ SplitLow(sub) % 8 # 0 THEN "ValueError"
            ELSE "ok"
      [] base = <<"h", "a", "s", "h">> ->
            IF ~SIZE_RE_match(sub) THEN "ValueError" ELSE "ok"
      [] base = <<"a", "d", "d", "r", "e", "s", "s">> ->
            IF sub # <<>> THEN "ValueError" ELSE "ok"
      [] OTHER -> "ok"

\* ast.literal_eval(x) for x = [digits]: [] or [k]; Python 3 takes a decimal
\* literal with a leading zero, unless it is all zeros, for a syntax error
literal_eval_fails(x) ==
    Len(x) > 3 /\ x[2] = "0" /\ \E i \in 2..(Len(x) - 1) : x[i] # "0"

literal_eval(x) == IF Len(x) = 2 THEN <<>> ELSE <<int(SubSeq(x, 2, Len(x) - 1))>>

\* return base, sub, [ast.literal_eval(x) for x in arrlist]
process_strict_type_return(base, sub, arrlist) ==
    IF \E i \in 1..Len(arrlist) : literal_eval_fails(arrlist[i])
    THEN Raised("SyntaxError")
    ELSE Returned([base |-> base, sub |-> sub,
                   arrlist |-> [i \in 1..Len(arrlist) |-> literal_eval(arrlist[i])]])

process_strict_type_checked(m, arrlist) ==
    IF JoinLen(arrlist) # Len(m.arr) THEN Raised("ValueError")
    ELSE IF check_type(m.base, m.sub) # "ok" THEN Raised(check_type(m.base, m.sub))
    ELSE process_strict_type_return(m.base, m.sub, arrlist)

process_strict_type_matched(m) ==
    process_strict_type_checked(m, ARR_COMPONENT_RE_findall(m.arr))

process_strict_type(s) == process_strict_type_matched(TYPE_COMPONENTS_RE_match(s))

DEFAULT_LENGTHS ==
    <<<<(<<"i", "n", "t">>), <<"2", "5", "6">>>>,
      <<(<<"u", "i", "n", "t">>), <<"2", "5", "6">>>>,
      <<(<<"f", "i", "x", "e", "d">>), <<"1", "2", "8", "x", "1", "9">>>>,
      <<(<<"u", "f", "i", "x", "e", "d">>), <<"1", "2", "8", "x", "1", "9">>>>>>

\* raw_type.startswith(test_base)
startswith(s, prefix) == Len(s) >= Len(prefix) /\ SubSeq(s, 1, Len(prefix)) = prefix

\* the first entry of DEFAULT_LENGTHS whose base raw_type starts with, or
\* (None, None), which is <<>> here
find_matching_default(raw_type) ==
    IF \E i \in 1..Len(DEFAULT_LENGTHS) : startswith(raw_type, DEFAULT_LENGTHS[i][1])
    THEN DEFAULT_LENGTHS[CHOOSE i \in 1..Len(DEFAULT_LENGTHS) :
             /\ startswith(raw_type, DEFAULT_LENGTHS[i][1])
             /\ \A j \in 1..(i - 1) : ~startswith(raw_type, DEFAULT_LENGTHS[j][1])]
    ELSE <<>>

raw_rest_missing(raw_rest) == raw_rest = <<>> \/ raw_rest[1] \notin Digits

is_missing_length(raw_type) ==
    /\ find_matching_default(raw_type) # <<>>
    /\ raw_rest_missing(From(raw_type, Len(find_matching_default(raw_type)[1])))

\* called only when is_missing_length holds, so a default is found
type_with_default_length(raw_type) ==
    find_matching_default(raw_type)[1] \o find_matching_default(raw_type)[2]
        \o From(raw_type, Len(find_matching_default(raw_type)[1]))

normalize_type(raw_type) ==
    IF raw_type = <<"f", "u", "n", "c", "t", "i", "o", "n">>
    THEN <<"b", "y", "t", "e", "s", "2", "4">>
    ELSE IF is_missing_length(raw_type) THEN type_with_default_length(raw_type)
    ELSE raw_type

\* the type strings of the model are text, so is_text holds
process_type(raw_type) == process_strict_type(normalize_type(raw_type))

\* str(k)
RECURSIVE str(_)
DigitText(k) == <<"0", "1", "2", "3", "4", "5", "6", "7", "8", "9">>[k + 1]

str(k) == IF k < 10 THEN <<DigitText(k)>> ELSE str(k \div 10) \o <<DigitText(k % 10)>>

\* repr of [] and of [k]
repr(x) == IF x = <<>> THEN <<"[", "]">> ELSE <<"[">> \o str(x[1]) \o <<"]">>

RECURSIVE JoinRepr(_)
JoinRepr(arrlist) == IF arrlist = <<>> THEN <<>> ELSE repr(Head(arrlist)) \o JoinRepr(Tail(arrlist))

collapse_type(base, sub, arrlist) == base \o sub \o JoinRepr(arrlist)

----------------------------------------------------------------------------
(* The state machine: a decoder is called once on a stream *)

NoResult == [status |-> "none", value |-> <<>>]

Init ==
    /\ \/ origin \in AbiInputs
       \/ origin \in SingleInputs
       \/ origin \in RawInputs
       \/ origin \in RawStringInputs
       \/ origin \in TestInputs
       \/ origin \in RawArrayInputs
    /\ stream = InputStream(origin)
    /\ decoder = InputDecoder(origin)
    /\ pos = InputStart(origin)
    /\ start = pos
    /\ result = NoResult
    /\ trace = <<>>
    /\ reach = 0
    /\ typ = <<>>
    /\ processed = NoResult
    /\ pc = "ready"

\* what a call leaves: the outcome, the cursor and the record of the decode
Called(r) ==
    /\ result' = [status |-> r.status, value |-> r.value]
    /\ pos' = r.st.pos
    /\ trace' = r.st.trace
    /\ reach' = r.st.reach

\* BaseDecoder.__call__: decoder(stream), one action for each decoder class
UIntDecoder_call ==
    /\ pc = "ready"
    /\ decoder.cls = "UIntDecoder"
    /\ Called(decode(decoder, stream, Cursor(pos, <<>>, 0)))
    /\ pc' = "done"
    /\ UNCHANGED <<decoder, stream, start, origin, typ, processed>>

IntDecoder_call ==
    /\ pc = "ready"
    /\ decoder.cls = "IntDecoder"
    /\ Called(decode(decoder, stream, Cursor(pos, <<>>, 0)))
    /\ pc' = "done"
    /\ UNCHANGED <<decoder, stream, start, origin, typ, processed>>

BooleanDecoder_call ==
    /\ pc = "ready"
    /\ decoder.cls = "BooleanDecoder"
    /\ Called(decode(decoder, stream, Cursor(pos, <<>>, 0)))
    /\ pc' = "done"
    /\ UNCHANGED <<decoder, stream, start, origin, typ, processed>>

AddressDecoder_call ==
    /\ pc = "ready"
    /\ decoder.cls = "AddressDecoder"
    /\ Called(decode(decoder, stream, Cursor(pos, <<>>, 0)))
    /\ pc' = "done"
    /\ UNCHANGED <<decoder, stream, start, origin, typ, processed>>

BytesDecoder_call ==
    /\ pc = "ready"
    /\ decoder.cls = "BytesDecoder"
    /\ Called(decode(decoder, stream, Cursor(pos, <<>>, 0)))
    /\ pc' = "done"
    /\ UNCHANGED <<decoder, stream, start, origin, typ, processed>>

StringDecoder_call ==
    /\ pc = "ready"
    /\ decoder.cls = "StringDecoder"
    /\ Called(decode(decoder, stream, Cursor(pos, <<>>, 0)))
    /\ pc' = "done"
    /\ UNCHANGED <<decoder, stream, start, origin, typ, processed>>

SizedArrayDecoder_call ==
    /\ pc = "ready"
    /\ decoder.cls = "SizedArrayDecoder"
    /\ Called(decode(decoder, stream, Cursor(pos, <<>>, 0)))
    /\ pc' = "done"
    /\ UNCHANGED <<decoder, stream, start, origin, typ, processed>>

DynamicArrayDecoder_call ==
    /\ pc = "ready"
    /\ decoder.cls = "DynamicArrayDecoder"
    /\ Called(decode(decoder, stream, Cursor(pos, <<>>, 0)))
    /\ pc' = "done"
    /\ UNCHANGED <<decoder, stream, start, origin, typ, processed>>

MultiDecoder_call ==
    /\ pc = "ready"
    /\ decoder.cls = "MultiDecoder"
    /\ Called(decode(decoder, stream, Cursor(pos, <<>>, 0)))
    /\ pc' = "done"
    /\ UNCHANGED <<decoder, stream, start, origin, typ, processed>>

Next ==
    \/ UIntDecoder_call
    \/ IntDecoder_call
    \/ BooleanDecoder_call
    \/ AddressDecoder_call
    \/ BytesDecoder_call
    \/ StringDecoder_call
    \/ SizedArrayDecoder_call
    \/ DynamicArrayDecoder_call
    \/ MultiDecoder_call

Spec == Init /\ [][Next]_vars

----------------------------------------------------------------------------
(* The type strings a parsing run starts from: a base, a size, an array    *)
(* suffix and what may follow them, each possibly empty or malformed       *)

BaseTexts ==
    {<<>>, <<"i", "n", "t">>, <<"u", "i", "n", "t">>,
     <<"f", "i", "x", "e", "d">>, <<"u", "f", "i", "x", "e", "d">>,
     <<"b", "y", "t", "e", "s">>, <<"s", "t", "r", "i", "n", "g">>,
     <<"f", "u", "n", "c", "t", "i", "o", "n">>,
     <<"a", "d", "d", "r", "e", "s", "s">>, <<"b", "o", "o", "l">>,
     <<"h", "a", "s", "h">>, <<"r", "e", "a", "l">>,
     <<"i", "n", "t", "e", "g", "e", "r">>}

SizeTexts ==
    {<<>>, <<"0">>, <<"1">>, <<"7">>, <<"8">>, <<"2", "4">>, <<"3", "2">>,
     <<"3", "3">>, <<"2", "5", "6">>, <<"2", "6", "4">>,
     <<"1", "2", "8", "x", "1", "8">>, <<"1", "2", "8", "x", "1", "9">>,
     <<"1", "2", "8", "x", "0">>, <<"8", "x", "8">>, <<"x">>}

ArrayTexts ==
    {<<>>, <<"[", "]">>} \cup {repr(<<k>>) : k \in 0..MaxArraySize}
        \cup {<<"[", "-", "1", "]">>, <<"[", "a", "]">>,
             <<"[", "0", "3", "]">>, <<"[", "2">>,
             <<"[", "]", "[", "2", "]">>, <<"[", "2", "]", "[", "]">>}

TrailingTexts ==
    {<<>>, <<"a", "b", "c">>, <<"!">>}

TypeStrings ==
    {b \o s \o a \o j : b \in BaseTexts, s \in SizeTexts, a \in ArrayTexts, j \in TrailingTexts}

TypeInputs == {[family |-> "type", raw_type |-> s] : s \in TypeStrings}

ParseInit ==
    /\ origin \in TypeInputs
    /\ typ = origin.raw_type
    /\ processed = NoResult
    /\ result = NoResult
    /\ decoder = [cls |-> "none"]
    /\ stream = <<>>
    /\ pos = 0
    /\ start = 0
    /\ trace = <<>>
    /\ reach = 0
    /\ pc = "ready"

\* process_type(typ), on the type string given and on the collapsed one
process_type_call ==
    /\ pc \in {"ready", "collapsed"}
    /\ processed' = process_type(typ)
    /\ pc' = IF pc = "ready" THEN "processed" ELSE "reprocessed"
    /\ UNCHANGED <<decoder, stream, pos, start, result, trace, reach, origin, typ>>

\* collapse_type(base, sub, arrlist) of what process_type returned, which is
\* kept in result
collapse_type_call ==
    /\ pc = "processed"
    /\ processed.status = "ok"
    /\ typ' = collapse_type(processed.value.base, processed.value.sub, processed.value.arrlist)
    /\ result' = processed
    /\ pc' = "collapsed"
    /\ UNCHANGED <<decoder, stream, pos, start, trace, reach, origin, processed>>

ParseNext ==
    \/ process_type_call
    \/ collapse_type_call

ParseSpec == ParseInit /\ [][ParseNext]_vars

----------------------------------------------------------------------------
(* What the claims speak of *)

\* the bytes left in the stream at the cursor the decoder was called with
Remaining == IF Len(stream) > start THEN Len(stream) - start ELSE 0

\* the 32 bytes of the stream from position p
WordAt(p) == SubSeq(stream, p + 1, p + data_byte_size)

\* the integer a byte string holds, big endian
ValueOfBytes(bytes) == PyInt(FALSE, StripZeros(bytes))

----------------------------------------------------------------------------
\* C3: decoding an unsigned integer of width bits fails with InsufficientData
\* when fewer than 32 bytes remain; else fails with NonEmptyPadding when the
\* value of the word is 2^bits or more; else returns the big-endian value of
\* the word and leaves the cursor 32 bytes further on.
C3_UIntDecode ==
    (pc = "done" /\ decoder.cls = "UIntDecoder") =>
        IF Remaining < data_byte_size
        THEN result.status = InsufficientDataBytes
        ELSE IF MagGE(ValueOfBytes(WordAt(start)).mag, TwoPow8(decoder.value_bit_size \div 8))
        THEN result.status = NonEmptyPaddingBytes
        ELSE /\ result.status = "ok"
             /\ result.value = ValueOfBytes(WordAt(start))
             /\ pos = start + data_byte_size

\* a uint16 decoded from a word whose two low bytes are 1 and 255
C3_Witness ==
    /\ pc = "done"
    /\ decoder = UIntDecoder(16)
    /\ result.status = "ok"
    /\ result.value.mag = <<1, 255>>
    /\ pos = start + data_byte_size

\* C4: decoding a bool returns False for the word 0 and True for the word 1,
\* fails with NonEmptyPadding for every other 32-byte word, and fails with
\* InsufficientData when fewer than 32 bytes remain.
C4_BooleanDecode ==
    (pc = "done" /\ decoder.cls = "BooleanDecoder") =>
        IF Remaining < data_byte_size
        THEN result.status = InsufficientDataBytes
        ELSE IF WordAt(start) = Zeros(data_byte_size - 1) \o <<0>>
        THEN result.status = "ok" /\ result.value = FALSE
        ELSE IF WordAt(start) = Zeros(data_byte_size - 1) \o <<1>>
        THEN result.status = "ok" /\ result.value = TRUE
        ELSE result.status = NonEmptyPaddingBytes

\* a bool word with clean padding and low byte 2 is refused
C4_Witness ==
    /\ pc = "done"
    /\ decoder.cls = "BooleanDecoder"
    /\ Remaining >= data_byte_size
    /\ WordAt(start) = Zeros(data_byte_size - 1) \o <<2>>
    /\ result.status = NonEmptyPaddingBytes

\* the length a string's length word holds, when it is a length of the model
LengthAt(p) == MagToNat(ValueOfBytes(WordAt(p)).mag)

\* a length word past every stream of the model
IsHugeAt(p) == Len(ValueOfBytes(WordAt(p)).mag) > 3

\* C5: decoding bytes/string reads a uint256 length L and then ceil32(L)
\* bytes, and returns the first L of them; when the length word is short or
\* fewer than ceil32(L) bytes follow it, whatever L, it fails with
\* InsufficientData.
C5_StringDecode ==
    (pc = "done" /\ decoder.cls = "StringDecoder") =>
        IF Remaining < data_byte_size
        THEN result.status = InsufficientDataBytes
        ELSE IF IsHugeAt(start) \/ Remaining - data_byte_size < ceil32(LengthAt(start))
        THEN result.status = InsufficientDataBytes
        ELSE /\ result.status = "ok"
             /\ result.value = SubSeq(stream, start + data_byte_size + 1,
                                      start + data_byte_size + LengthAt(start))
             /\ pos = start + data_byte_size + ceil32(LengthAt(start))

----------------------------------------------------------------------------
\* the run decodes the canonical encoding of a tuple of sample values, whole
\* and from the start of the stream
WholeEncoding ==
    /\ origin.family = "abi"
    /\ origin.cut = 0
    /\ origin.flip = NoFlip

\* C1: decoding the canonical encoding of a well-typed value with the decoder
\* built for its type succeeds and returns the value, for every supported
\* type, negative intN with N < 256 among them.
C1_RoundTrip ==
    (pc = "done" /\ WholeEncoding /\ origin.base = 0) =>
        /\ result.status = "ok"
        /\ result.value = ValuesOf(origin.types, origin.seed)

\* the two's complement of a byte string that is not all zeros: every byte
\* inverted, and one added at the last byte that does not carry
Inverted(low) == [i \in 1..Len(low) |-> 255 - low[i]]

LastNoCarry(inv) == CHOOSE j \in 1..Len(inv) : inv[j] # 255 /\ \A i \in (j + 1)..Len(inv) : inv[i] = 255

AddOne(inv) ==
    [i \in 1..Len(inv) |->
        IF i < LastNoCarry(inv) THEN inv[i]
        ELSE IF i = LastNoCarry(inv) THEN inv[i] + 1 ELSE 0]

Negated(low) == PyInt(TRUE, StripZeros(AddOne(Inverted(low))))

\* the padding and the value bytes of the word of an integer of the width of
\* the decoder
PaddingAt(p) == SubSeq(WordAt(p), 1, data_byte_size - decoder.value_bit_size \div 8)

LowAt(p) == SubSeq(WordAt(p), data_byte_size - decoder.value_bit_size \div 8 + 1, data_byte_size)

\* C2: a signed integer of width bits is decoded from a word exactly when its
\* padding bytes are all 0x00 and the value non-negative, or all 0xFF and the
\* value negative; it is then the two's-complement value of the low bits/8
\* bytes; any other padding fails with NonEmptyPadding.
C2_IntDecode ==
    (pc = "done" /\ decoder.cls = "IntDecoder" /\ Remaining >= data_byte_size) =>
        IF (\A i \in DOMAIN PaddingAt(start) : PaddingAt(start)[i] = 0) /\ LowAt(start)[1] < 128
        THEN result.status = "ok" /\ result.value = ValueOfBytes(LowAt(start))
        ELSE IF (\A i \in DOMAIN PaddingAt(start) : PaddingAt(start)[i] = 255)
                    /\ LowAt(start)[1] >= 128
        THEN result.status = "ok" /\ result.value = Negated(LowAt(start))
        ELSE result.status = NonEmptyPaddingBytes

\* C6: changing one padding bit of a valid encoding of a type that has
\* padding (bytes and string of a length that is no multiple of 32 among
\* them) makes the decode fail with NonEmptyPadding.
C6_PaddingIntegrity ==
    (pc = "done" /\ origin.family = "abi" /\ origin.flip # NoFlip) =>
        result.status = NonEmptyPaddingBytes

\* the run decodes an encoding with bytes taken off its end
Truncated ==
    /\ origin.family \in {"abi", "test"}
    /\ origin.cut > 0
    /\ origin.cut <= Len(FullEncoding(origin))

\* C7 as stated, on the encoding it names: the four-word encoding of
\* (uint256,bytes) = (0, b"") with one or more bytes removed from its end
\* fails to decode, with InsufficientData or InvalidOffset.
C7_TruncationAlwaysFails ==
    (pc = "done" /\ Truncated /\ origin.family = "test" /\ origin.case = 2) =>
        result.status \in {InsufficientDataBytes, "InvalidOffset"}

\* the outcome on the truncated stream, against the decode of the whole encoding
TruncatedAgainst(full) ==
    IF full.st.reach > Len(stream)
    THEN result.status = InsufficientDataBytes
    ELSE /\ result.status = full.status
         /\ result.value = full.value
         /\ pos = full.st.pos

\* C7, amended: with bytes removed from its end, an encoding fails to decode
\* with InsufficientData when the decode of the whole encoding reads one of
\* the removed bytes; when it reads none of them, the decode has the outcome
\* and the cursor it has on the whole encoding.
C7_Truncation ==
    (pc = "done" /\ Truncated) =>
        TruncatedAgainst(decode(decoder, FullEncoding(origin), Cursor(start, <<>>, 0)))

\* the four words of test_multi_decoder without the last one decode to (0, b"")
C7_Witness ==
    /\ pc = "done"
    /\ origin.family = "test"
    /\ origin.case = 2
    /\ origin.cut = data_byte_size
    /\ Len(stream) = 3 * data_byte_size
    /\ result.status = "ok"
    /\ result.value = TestExpected(2)

\* C8: in a tuple decoded from the cursor B, a dynamic member is decoded at
\* B + o, o being the offset read from its head slot, for every B.
C8_OffsetFromBase ==
    (pc = "done" /\ WholeEncoding) =>
        \A i \in 1..Len(trace) : trace[i].at = start + AsIndex(trace[i].start_pos)

\* C9: the tuple decoder reads an offset for a member exactly when is_dynamic
\* holds for the member's type: bytes, string, a dynamic array, or an array of
\* any length of a dynamic element type.
C9_DynamicMembers ==
    (pc = "done" /\ WholeEncoding) =>
        \A i \in 1..Len(origin.types) :
            MultiDecoder_wraps(decoder.decoders[i]) <=> is_dynamic(origin.types[i])

\* the run hands the encoding of one array to the decoder of its type
ArrayRun == origin.family = "single" /\ origin.type.arrlist # <<>>

\* the same result and the same cursor
SameOutcome(r) == result.status = r.status /\ result.value = r.value /\ pos = r.st.pos

\* the tuple decoder of k members of the element type of the array
TupleOf(k, sub) == MultiDecoder([i \in 1..k |-> sub])

\* C10: a fixed-size array of k elements decodes as the tuple of k members of
\* its element type does, with the same cursor movement, for static and
\* dynamic elements; a dynamic array reads a length n and decodes as the
\* fixed-size array of n elements; a dynamic element is reached through an
\* offset measured from the start of the array's own head.
C10_ArrayAsTuple ==
    (pc = "done" /\ ArrayRun) =>
        /\ decoder.cls = "SizedArrayDecoder" =>
              SameOutcome(decode(TupleOf(decoder.array_size, decoder.sub_decoder),
                                 stream, Cursor(start, <<>>, 0)))
        /\ (decoder.cls = "DynamicArrayDecoder" /\ Len(stream) >= data_byte_size) =>
              SameOutcome(decode(SizedArrayDecoder(AsIndex(ValueOfBytes(WordAt(start))),
                                                   decoder.sub_decoder),
                                 stream, Cursor(start + data_byte_size, <<>>, 0)))
        /\ is_dynamic(ElementType(origin.type)) =>
              /\ Len(trace) = Len(ValueOf(origin.type, origin.seed))
              /\ \A i \in 1..Len(trace) :
                    trace[i].at = AsIndex(trace[i].start_pos)
                        + (IF decoder.cls = "DynamicArrayDecoder" THEN data_byte_size ELSE 0)

----------------------------------------------------------------------------
(* Type strings *)

\* the text after the first n characters of the type string given
RestAfter(n) == From(origin.raw_type, n)

\* a text made of [] and [digits] groups only
IsArraySuffix(s) == Groups(s) = Len(s)

\* the type string given is `base`, bare, with or without array brackets
BareType(base) ==
    /\ startswith(origin.raw_type, base)
    /\ IsArraySuffix(RestAfter(Len(base)))

\* the names of the types of the ABI
TypeNames == BaseTexts \ {<<>>, <<"i", "n", "t", "e", "g", "e", "r">>}

\* the type string given is the name of a type followed by a size that starts
\* with a digit, and array brackets
SizedType ==
    /\ SubSeq(origin.raw_type, 1, Span(origin.raw_type, Lower)) \in TypeNames
    /\ Span(origin.raw_type, Lower) < Len(origin.raw_type)
    /\ origin.raw_type[Span(origin.raw_type, Lower) + 1] \in Digits
    /\ IsArraySuffix(From(RestAfter(Span(origin.raw_type, Lower)),
                          SizeSpan(RestAfter(Span(origin.raw_type, Lower)))))

\* C11: a bare int or uint, with or without array brackets, is processed as
\* int256 / uint256, a bare fixed or ufixed with the size 128x18, and function
\* as bytes24; a type string that carries a size is processed as it is.
C11_Defaults ==
    pc = "processed" =>
        /\ \A b \in {<<"i", "n", "t">>, <<"u", "i", "n", "t">>} :
              BareType(b) =>
                  processed = process_strict_type(b \o <<"2", "5", "6">> \o RestAfter(Len(b)))
        /\ \A b \in {<<"f", "i", "x", "e", "d">>, <<"u", "f", "i", "x", "e", "d">>} :
              BareType(b) =>
                  processed = process_strict_type(
                                  b \o <<"1", "2", "8", "x", "1", "8">> \o RestAfter(Len(b)))
        /\ origin.raw_type = <<"f", "u", "n", "c", "t", "i", "o", "n">> =>
              processed = process_strict_type(<<"b", "y", "t", "e", "s", "2", "4">>)
        /\ SizedType =>
              /\ normalize_type(origin.raw_type) = origin.raw_type
              /\ processed = process_strict_type(origin.raw_type)

\* the type string given is `base` followed by decimal digits, none or more
BaseAndDigits(base) ==
    /\ startswith(origin.raw_type, base)
    /\ AllDigits(RestAfter(Len(base)))

\* C12: process_type accepts bytes with no size or a size in 1..32 and string
\* with no size; it fails for bytes0, for bytesN with N > 32 and for string
\* followed by any size.
C12_BytesAndStringSizes ==
    pc = "processed" =>
        /\ BaseAndDigits(<<"b", "y", "t", "e", "s">>) =>
              (processed.status = "ok" <=>
                  \/ RestAfter(5) = <<>>
                  \/ (int(RestAfter(5)) >= 1 /\ int(RestAfter(5)) <= 32))
        /\ BaseAndDigits(<<"s", "t", "r", "i", "n", "g">>) =>
              (processed.status = "ok" <=> RestAfter(6) = <<>>)

\* the type string given is wholly a base, an optional size and array groups
WhollyAType ==
    Span(origin.raw_type, Lower)
        + SizeSpan(RestAfter(Span(origin.raw_type, Lower)))
        + Groups(From(RestAfter(Span(origin.raw_type, Lower)),
                      SizeSpan(RestAfter(Span(origin.raw_type, Lower)))))
        = Len(origin.raw_type)

\* C13: process_type fails for every type string that is not wholly a base,
\* an optional size and [digits?] groups: a malformed array dimension and
\* characters after a valid prefix are rejected, not dropped.
C13_MalformedRejected ==
    (pc = "processed" /\ ~WhollyAType) => processed.status # "ok"

\* C14: for every type string process_type accepts, processing the collapsed
\* form of what it returned succeeds and returns the same (base, sub, arrlist).
C14_IdempotentParse ==
    pc = "reprocessed" => processed = result

----------------------------------------------------------------------------
(* Dynamic arrays and the cursor after a tuple *)

\* the size of the encoding of a value a decoder for a static type reads
RECURSIVE StaticSizeOf(_)
StaticSizeOf(d) ==
    IF d.cls = "SizedArrayDecoder" THEN d.array_size * StaticSizeOf(d.sub_decoder)
    ELSE data_byte_size

\* the value of the static element at position p: the unsigned integer of
\* its word, or the tuple of those of a fixed-size array
RECURSIVE ElementAt(_, _)
ElementAt(d, p) ==
    IF d.cls = "SizedArrayDecoder"
    THEN [i \in 1..d.array_size |->
             ElementAt(d.sub_decoder, p + (i - 1) * StaticSizeOf(d.sub_decoder))]
    ELSE ValueOfBytes(WordAt(p))

\* the number of complete elements the stream holds after the length word
CompleteElements == (Remaining - data_byte_size) \div StaticSizeOf(decoder.sub_decoder)

\* the length word says no more elements than the stream holds
HoldsAll(n) == Len(n.mag) <= 3 /\ MagToNat(n.mag) <= CompleteElements

\* C15: decoding a dynamic array of static elements reads a length n and
\* returns the tuple of the next n elements in stream order, whatever bytes
\* follow them; with fewer than n complete elements after the length word it
\* fails with InsufficientData and returns no partial tuple.
C15_DynamicArrayOfStatic ==
    (pc = "done" /\ origin.family = "rawarray" /\ Remaining >= data_byte_size) =>
        IF HoldsAll(ValueOfBytes(WordAt(start)))
        THEN /\ result.status = "ok"
             /\ result.value =
                    [i \in 1..LengthAt(start) |->
                        ElementAt(decoder.sub_decoder,
                                  start + data_byte_size
                                      + (i - 1) * StaticSizeOf(decoder.sub_decoder))]
             /\ pos = start + data_byte_size
                          + LengthAt(start) * StaticSizeOf(decoder.sub_decoder)
        ELSE /\ result.status = InsufficientDataBytes
             /\ result.value = <<>>

\* two of three elements returned, the third and a byte after it left unread
C15_Witness ==
    /\ pc = "done"
    /\ origin.family = "rawarray"
    /\ decoder = DynamicArrayDecoder(UIntDecoder(256))
    /\ origin.words = 3
    /\ origin.extra = 1
    /\ result.status = "ok"
    /\ result.value = <<PyInt(FALSE, <<7>>), PyInt(FALSE, <<14>>)>>
    /\ pos = start + 3 * data_byte_size

\* the static size of a static type: a word for an elementary type, k times
\* the element's for a fixed-size array of k elements
RECURSIVE static_size(_)
static_size(t) ==
    IF t.arrlist = <<>> THEN data_byte_size
    ELSE t.arrlist[Len(t.arrlist)][1] * static_size(ElementType(t))

\* the head width of the members: a static member's static size, 32 bytes
\* for a dynamic member's offset
RECURSIVE tuple_head_width(_)
tuple_head_width(types) ==
    IF types = <<>> THEN 0
    ELSE (IF is_dynamic(Head(types)) THEN data_byte_size ELSE static_size(Head(types)))
             + tuple_head_width(Tail(types))

\* C16: after every successful tuple decode that started with the cursor at
\* B the cursor is at B + head_width, the static sizes of the static members
\* plus 32 for each dynamic member, whatever the offsets were.
C16_CursorAfterTuple ==
    (pc = "done" /\ origin.family = "abi" /\ result.status = "ok") =>
        pos = start + tuple_head_width(origin.types)

====
